---- MODULE Spec2Model ----
(***************************************************************************)
(* MoveDetect: the movement detection engine MoveDetect::Handler and the   *)
(* similarity metric MoveDetect::psnr of src/src-lib/MoveDetect.cpp.       *)
(*                                                                         *)
(* Images are solid-colour cv::Mat: a Mat is the record                    *)
(* [cols, rows, type, val], every pixel of every channel holding val.      *)
(* Scores are in thousandths of a dB, ratios in thousandths.               *)
(***************************************************************************)
EXTENDS Integers, Sequences, FiniteSets, TLC

\* ---------------------------------------------------------------- bounds
MaxIndex == 2               \* frame indices are 0..MaxIndex
MaxBufferIndex == 4         \* the same, where only the control buffer is followed
MaxConfigWrites == 1        \* caller writes to configuration fields since construction or clear()
MaxMaskIndex == 5           \* frame indices of the calls that follow a mask
MaxSide == 2                \* buffers passed to psnr() by itself are up to MaxSide x MaxSide
MaxClock == 1               \* readings of the clock are 1..MaxClock

\* ------------------------------------------------------- program constants
DefaultKeyFrameFrequency == 10
DefaultNumberOfControlFrames == 4
DefaultPsnrThreshold == 32000
DefaultThumbnailRatio == 50
DefaultContoursSize == 1
DefaultBboxSize == 1
MinThumbnailRatio == 10
MaxThumbnailRatio == 1000
MaxPixelSquared == 65025

\* ------------------------------------------------------------- cv::Mat
Channels(type) == IF type = "CV_8UC3" THEN 3 ELSE 1

EmptyMat == [cols |-> 0, rows |-> 0, type |-> "CV_8UC1", val |-> 0]

Empty(m) == m.cols = 0 \/ m.rows = 0

Total(m) == m.cols * m.rows

Size(m) == [width |-> m.cols, height |-> m.rows]

Area(size) == size.width * size.height

AbsDiff(a, b) == IF a.val >= b.val THEN a.val - b.val ELSE b.val - a.val

\* cv::resize of a solid image: every output pixel is the average (INTER_AREA)
\* or the interpolation (INTER_CUBIC) of equal values.
Resize(m, size) ==
    [cols |-> size.width, rows |-> size.height, type |-> m.type, val |-> m.val]

\* -------------------------------------------------------- fixed-point log
RECURSIVE GCD(_, _)
GCD(a, b) == IF b = 0 THEN a ELSE GCD(b, a % b)

\* fixed point: One is 1.0, HalfBit the weight of the first binary digit of
\* a logarithm and twice HalfBit its unit
One == 16384
HalfBit == 512

\* floor(log2(num/den)) for num >= den > 0, counted from e with 'weight' = 2^(e+1)
RECURSIVE FloorLog2(_, _, _, _)
FloorLog2(num, den, e, weight) ==
    IF den <= num \div weight THEN FloorLog2(num, den, e + 1, 2 * weight) ELSE e

\* 2^e
RECURSIVE Pow2(_)
Pow2(e) == IF e = 0 THEN 1 ELSE 2 * Pow2(e - 1)

\* the binary digits of log2(m/One) from the one of weight 'weight' on, for
\* One <= m < 2*One: squaring m doubles its logarithm
RECURSIVE Log2Frac(_, _)
Log2Frac(m, weight) ==
    IF weight = 0 THEN 0
    ELSE IF (m * m) \div One >= 2 * One
    THEN weight + Log2Frac((m * m) \div (2 * One), weight \div 2)
    ELSE Log2Frac((m * m) \div One, weight \div 2)

\* log2(n/d) in units of 1/(2*HalfBit), for n >= d > 0, given e = floor(log2(n/d))
Log2(n, d, e) ==
    e * 2 * HalfBit + Log2Frac((n * One) \div (d * Pow2(e)), HalfBit)

\* 10 * log10(num/den) in thousandths, for num >= den > 0:
\* 10 * log10(2) is 3.0103
TenLog10(num, den) ==
    LET g == GCD(num, den)
    IN  (Log2(num \div g, den \div g, FloorLog2(num \div g, den \div g, 0, 2)) * 30103)
            \div (20 * HalfBit)

\* ------------------------------------------------------------------ psnr
Sse(src, dst) ==
    Channels(src.type) * Total(src) * AbsDiff(src, dst) * AbsDiff(src, dst)

\* psnr() without the test of the rows
psnrOfEqualWidth(src, dst) ==
    IF Empty(src) \/ Empty(dst)
    THEN [threw |-> TRUE, what |-> "cannot calculate psnr using empty image", value |-> 0]
    ELSE IF src.type # dst.type \/ src.cols # dst.cols
    THEN [threw |-> TRUE, what |-> "src and dst images cannot be compared", value |-> 0]
    ELSE IF Sse(src, dst) = 0
    THEN [threw |-> FALSE, what |-> "", value |-> 0]
    ELSE [threw |-> FALSE, what |-> "",
          value |-> TenLog10(MaxPixelSquared * Channels(src.type) * Total(src),
                             Sse(src, dst))]

\* double MoveDetect::psnr(const cv::Mat & src, const cv::Mat & dst)
psnr(src, dst) ==
    IF Empty(src) \/ Empty(dst)
    THEN [threw |-> TRUE, what |-> "cannot calculate psnr using empty image", value |-> 0]
    ELSE IF src.type # dst.type \/ src.cols # dst.cols \/ src.rows # dst.rows
    THEN [threw |-> TRUE, what |-> "src and dst images cannot be compared", value |-> 0]
    ELSE IF Sse(src, dst) = 0
    THEN [threw |-> FALSE, what |-> "", value |-> 0]
    ELSE [threw |-> FALSE, what |-> "",
          value |-> TenLog10(MaxPixelSquared * Channels(src.type) * Total(src),
                             Sse(src, dst))]

\* ------------------------------------------------------------- the Handler
VARIABLES
    control,                    \* ControlMap: frame index -> thumbnail
    movement_detected,
    transition_detected,
    next_frame_index,
    next_key_frame,
    key_frame_frequency,
    number_of_control_frames,
    psnr_threshold,
    most_recent_psnr_score,
    thumbnail_ratio,
    thumbnail_size,
    frame_index_with_movement,
    movement_last_detected,     \* 0 is the epoch, time_point()
    mask_enabled,
    mask,
    line_type,
    contours_enabled,
    contours_size,
    bbox_enabled,
    bbox_size,
    output,
    \* history of the calls made by the caller
    outcome,                    \* what the most recent call did
    last_result,                \* boolean returned by the most recent detect() that returned
    calls,                      \* detect() calls that returned, while the indices were in order
    in_order,                   \* every explicit index so far was >= next_frame_index
    cap_changed,                \* number_of_control_frames was written after a detect() returned
    config_writes,              \* caller writes to configuration fields so far
    last_kept,                  \* the most recent frame kept as a key frame
    compared                    \* two buffers, and what psnr() made of them

settings == <<key_frame_frequency, number_of_control_frames, psnr_threshold,
              line_type, contours_enabled, contours_size, bbox_enabled, bbox_size>>

detected == <<control, movement_detected, transition_detected, next_frame_index,
              next_key_frame, most_recent_psnr_score, thumbnail_ratio, thumbnail_size,
              frame_index_with_movement, movement_last_detected, mask_enabled, mask,
              output>>

handler == <<settings, detected>>

history == <<outcome, last_result, calls, in_order, cap_changed, config_writes,
             last_kept>>

vars == <<handler, history, compared>>

\* how a call ends: it returns, or throws std::invalid_argument or cv::Exception
Returned == [result |-> "returned", thrown_by |-> ""]

InvalidArgument(by) == [result |-> "invalid_argument", thrown_by |-> by]

CvException(by) == [result |-> "cv_exception", thrown_by |-> by]

\* nothing of the Handler's past is discarded by a call other than clear()
Nothing == [calls |-> 0, writes |-> 0]

\* the most recent call: which, the image passed and its size, the frame index
\* of a detect() that returned, how it ended, and how much of the Handler's
\* past it discarded
Discarding(name, image, ends, past) ==
    [call |-> name, image |-> image, size |-> Size(image), index |-> 0,
     result |-> ends.result, thrown_by |-> ends.thrown_by,
     discarded |-> past]

Call(name, image, ends) == Discarding(name, image, ends, Nothing)

\* a call of detect(frame_index, image); a call that throws leaves no index
DetectCall(frame_index, image, ends) ==
    [Call("detect", image, ends) EXCEPT
        !.index = IF ends = Returned THEN frame_index ELSE 0]

\* no frame kept yet
NothingKept == [kept |-> FALSE, index |-> 0, frequency |-> 0]

\* psnr() not called by itself
NotCompared == [src |-> EmptyMat, dst |-> EmptyMat, done |-> FALSE, threw |-> FALSE, value |-> 0]

NoOutput == [image |-> EmptyMat, polylines |-> <<>>, rectangle |-> <<>>]

\* the Handler with a key frame every 15 frames and 2 control frames
ClearedWithOtherDefaults ==
    [control                   |-> <<>>,
     movement_detected         |-> FALSE,
     transition_detected       |-> FALSE,
     next_frame_index          |-> 0,
     next_key_frame            |-> 0,
     key_frame_frequency       |-> 15,
     number_of_control_frames  |-> 2,
     psnr_threshold            |-> DefaultPsnrThreshold,
     most_recent_psnr_score    |-> 0,
     thumbnail_ratio           |-> DefaultThumbnailRatio,
     thumbnail_size            |-> [width |-> 0, height |-> 0],
     frame_index_with_movement |-> 0,
     movement_last_detected    |-> 0,
     mask_enabled              |-> FALSE,
     mask                      |-> EmptyMat,
     line_type                 |-> "LINE_4",
     contours_enabled          |-> FALSE,
     contours_size             |-> DefaultContoursSize,
     bbox_enabled              |-> FALSE,
     bbox_size                 |-> DefaultBboxSize,
     output                    |-> NoOutput]

\* the Handler as its constructor leaves it
Cleared ==
    [control                   |-> <<>>,
     movement_detected         |-> FALSE,
     transition_detected       |-> FALSE,
     next_frame_index          |-> 0,
     next_key_frame            |-> 0,
     key_frame_frequency       |-> DefaultKeyFrameFrequency,
     number_of_control_frames  |-> DefaultNumberOfControlFrames,
     psnr_threshold            |-> DefaultPsnrThreshold,
     most_recent_psnr_score    |-> 0,
     thumbnail_ratio           |-> DefaultThumbnailRatio,
     thumbnail_size            |-> [width |-> 0, height |-> 0],
     frame_index_with_movement |-> 0,
     movement_last_detected    |-> 0,
     mask_enabled              |-> FALSE,
     mask                      |-> EmptyMat,
     line_type                 |-> "LINE_4",
     contours_enabled          |-> FALSE,
     contours_size             |-> DefaultContoursSize,
     bbox_enabled              |-> FALSE,
     bbox_size                 |-> DefaultBboxSize,
     output                    |-> NoOutput]

\* the fields of the Handler, as one record
Fields ==
    [control                   |-> control,
     movement_detected         |-> movement_detected,
     transition_detected       |-> transition_detected,
     next_frame_index          |-> next_frame_index,
     next_key_frame            |-> next_key_frame,
     key_frame_frequency       |-> key_frame_frequency,
     number_of_control_frames  |-> number_of_control_frames,
     psnr_threshold            |-> psnr_threshold,
     most_recent_psnr_score    |-> most_recent_psnr_score,
     thumbnail_ratio           |-> thumbnail_ratio,
     thumbnail_size            |-> thumbnail_size,
     frame_index_with_movement |-> frame_index_with_movement,
     movement_last_detected    |-> movement_last_detected,
     mask_enabled              |-> mask_enabled,
     mask                      |-> mask,
     line_type                 |-> line_type,
     contours_enabled          |-> contours_enabled,
     contours_size             |-> contours_size,
     bbox_enabled              |-> bbox_enabled,
     bbox_size                 |-> bbox_size,
     output                    |-> output]

\* assigns the fields of record f to the Handler
Assign(f) ==
    /\ control' = f.control
    /\ movement_detected' = f.movement_detected
    /\ transition_detected' = f.transition_detected
    /\ next_frame_index' = f.next_frame_index
    /\ next_key_frame' = f.next_key_frame
    /\ key_frame_frequency' = f.key_frame_frequency
    /\ number_of_control_frames' = f.number_of_control_frames
    /\ psnr_threshold' = f.psnr_threshold
    /\ most_recent_psnr_score' = f.most_recent_psnr_score
    /\ thumbnail_ratio' = f.thumbnail_ratio
    /\ thumbnail_size' = f.thumbnail_size
    /\ frame_index_with_movement' = f.frame_index_with_movement
    /\ movement_last_detected' = f.movement_last_detected
    /\ mask_enabled' = f.mask_enabled
    /\ mask' = f.mask
    /\ line_type' = f.line_type
    /\ contours_enabled' = f.contours_enabled
    /\ contours_size' = f.contours_size
    /\ bbox_enabled' = f.bbox_enabled
    /\ bbox_size' = f.bbox_size
    /\ output' = f.output

\* MoveDetect::Handler::Handler(), and a caller that has called nothing yet
Constructed ==
    /\ control = Cleared.control
    /\ movement_detected = Cleared.movement_detected
    /\ transition_detected = Cleared.transition_detected
    /\ next_frame_index = Cleared.next_frame_index
    /\ next_key_frame = Cleared.next_key_frame
    /\ key_frame_frequency = Cleared.key_frame_frequency
    /\ number_of_control_frames = Cleared.number_of_control_frames
    /\ psnr_threshold = Cleared.psnr_threshold
    /\ most_recent_psnr_score = Cleared.most_recent_psnr_score
    /\ thumbnail_ratio = Cleared.thumbnail_ratio
    /\ thumbnail_size = Cleared.thumbnail_size
    /\ frame_index_with_movement = Cleared.frame_index_with_movement
    /\ movement_last_detected = Cleared.movement_last_detected
    /\ mask_enabled = Cleared.mask_enabled
    /\ mask = Cleared.mask
    /\ line_type = Cleared.line_type
    /\ contours_enabled = Cleared.contours_enabled
    /\ contours_size = Cleared.contours_size
    /\ bbox_enabled = Cleared.bbox_enabled
    /\ bbox_size = Cleared.bbox_size
    /\ output = Cleared.output
    /\ outcome = Call("Handler", EmptyMat, Returned)
    /\ last_result = FALSE
    /\ calls = 0
    /\ in_order = TRUE
    /\ cap_changed = FALSE
    /\ config_writes = 0
    /\ last_kept = NothingKept

Init == Constructed /\ compared = NotCompared

\* MoveDetect::Handler::empty()
empty == DOMAIN control = {}

\* clear() with the mask and the output left as they are
ClearFieldsKeepingOutputs(f) ==
    [f EXCEPT !.control = [k \in {} |-> EmptyMat],
              !.movement_detected = FALSE,
              !.transition_detected = FALSE,
              !.next_frame_index = 0,
              !.next_key_frame = 0,
              !.key_frame_frequency = DefaultKeyFrameFrequency,
              !.number_of_control_frames = DefaultNumberOfControlFrames,
              !.psnr_threshold = DefaultPsnrThreshold,
              !.most_recent_psnr_score = 0,
              !.thumbnail_ratio = DefaultThumbnailRatio,
              !.thumbnail_size = [width |-> 0, height |-> 0],
              !.frame_index_with_movement = 0,
              !.movement_last_detected = 0,
              !.mask_enabled = FALSE,
              !.line_type = "LINE_4",
              !.contours_enabled = FALSE,
              !.contours_size = DefaultContoursSize,
              !.bbox_enabled = FALSE,
              !.bbox_size = DefaultBboxSize]

\* the assignments of MoveDetect::Handler::clear() to the fields f
ClearFields(f) ==
    [f EXCEPT !.control = [k \in {} |-> EmptyMat],
              !.movement_detected = FALSE,
              !.transition_detected = FALSE,
              !.next_frame_index = 0,
              !.next_key_frame = 0,
              !.key_frame_frequency = DefaultKeyFrameFrequency,
              !.number_of_control_frames = DefaultNumberOfControlFrames,
              !.psnr_threshold = DefaultPsnrThreshold,
              !.most_recent_psnr_score = 0,
              !.thumbnail_ratio = DefaultThumbnailRatio,
              !.thumbnail_size = [width |-> 0, height |-> 0],
              !.frame_index_with_movement = 0,
              !.movement_last_detected = 0,
              !.mask_enabled = FALSE,
              !.mask = EmptyMat,
              !.line_type = "LINE_4",
              !.contours_enabled = FALSE,
              !.contours_size = DefaultContoursSize,
              !.bbox_enabled = FALSE,
              !.bbox_size = DefaultBboxSize,
              !.output = NoOutput]

\* MoveDetect::Handler::clear()
clear ==
    /\ \E f \in {ClearFields(Fields)} : Assign(f)
    /\ outcome' = Discarding("clear", EmptyMat, Returned,
                              [calls |-> next_frame_index, writes |-> config_writes])
    /\ last_result' = FALSE
    /\ calls' = 0
    /\ in_order' = TRUE
    /\ cap_changed' = FALSE
    /\ config_writes' = 0
    /\ last_kept' = NothingKept
    /\ UNCHANGED compared

\* --------------------------------------------------------------- detect()
MaxKey(keys) == CHOOSE k \in keys : \A j \in keys : j <= k

\* control.rbegin() in place of control.begin(): the highest key
MinKeyFromTheBack(keys) == CHOOSE k \in keys : \A j \in keys : j <= k

MinKey(keys) == CHOOSE k \in keys : \A j \in keys : k <= j

\* std::clamp
Clamp(v, lo, hi) == IF v < lo THEN lo ELSE IF hi < v THEN hi ELSE v

\* the thumbnail size detect() computes from the image and the ratio;
\* the conversion of the product to int truncates
ThumbnailSize(image, ratio) ==
    [width  |-> (image.cols * ratio) \div 1000,
     height |-> (image.rows * ratio) \div 1000]

\* the thumbnail compared with the most recent control frame alone
ScanMostRecentOnly(ctrl, keys, thumbnail, threshold, score) ==
    IF keys = {}
    THEN [status |-> "none", score |-> score, key |-> 0]
    ELSE LET k == MaxKey(keys)
             r == psnr(ctrl[k], thumbnail)
         IN  IF r.threw
             THEN [status |-> "threw", score |-> score, key |-> k]
             ELSE IF r.value < threshold
             THEN [status |-> "movement", score |-> r.value, key |-> k]
             ELSE [status |-> "none", score |-> r.value, key |-> 0]

\* the loop over control.rbegin() .. control.rend(): the entries are compared
\* from the highest index down; 'score' is most_recent_psnr_score so far
RECURSIVE Scan(_, _, _, _, _)
Scan(ctrl, keys, thumbnail, threshold, score) ==
    IF keys = {}
    THEN [status |-> "none", score |-> score, key |-> 0]
    ELSE LET k == MaxKey(keys)
             r == psnr(ctrl[k], thumbnail)
         IN  IF r.threw
             THEN [status |-> "threw", score |-> score, key |-> k]
             ELSE IF r.value < threshold
             THEN [status |-> "movement", score |-> r.value, key |-> k]
             ELSE Scan(ctrl, keys \ {k}, thumbnail, threshold, r.value)

\* absdiff, resize to the image size, cvtColor, threshold (Otsu), dilate, erode:
\* the difference of two solid thumbnails is solid; Otsu's threshold of a
\* solid image is 0, so that every pixel above 0 becomes 255
MovementMask(val, thumbnail, image) ==
    [cols |-> image.cols, rows |-> image.rows, type |-> "CV_8UC1",
     val  |-> IF AbsDiff(val, thumbnail) > 0 THEN 255 ELSE 0]

\* cv::Mat(image.size(), CV_8UC1, {0, 0, 0})
BlankMask(image) ==
    [cols |-> image.cols, rows |-> image.rows, type |-> "CV_8UC1", val |-> 0]

\* image.clone() with the contours and the bounding box of the mask drawn;
\* a mask of zeros has no contour and an empty bounding rectangle
Annotate(f, image, msk) ==
    [image     |-> image,
     polylines |-> IF f.contours_enabled /\ msk.val # 0
                   THEN <<f.contours_size, f.line_type>> ELSE <<>>,
     rectangle |-> IF f.bbox_enabled /\ msk.val # 0
                   THEN <<f.bbox_size, f.line_type>> ELSE <<>>]

\* the thumbnail stored as in a vector, after the entries there are
InsertUnderCount(ctrl, frame_index, thumbnail) ==
    [k \in DOMAIN ctrl \cup {Cardinality(DOMAIN ctrl)} |->
        IF k = Cardinality(DOMAIN ctrl) THEN thumbnail ELSE ctrl[k]]

\* control[frame_index] = thumbnail
Insert(ctrl, frame_index, thumbnail) ==
    [k \in DOMAIN ctrl \cup {frame_index} |->
        IF k = frame_index THEN thumbnail ELSE ctrl[k]]

\* the entries erased at control.rbegin(): the lowest keys stay
EvictFromTheEnd(ctrl, capacity) ==
    [k \in {i \in DOMAIN ctrl : Cardinality({j \in DOMAIN ctrl : j < i}) < capacity}
        |-> ctrl[k]]

\* the eviction loop left out
EvictNothing(ctrl, capacity) == ctrl

\* while (control.size() > number_of_control_frames) control.erase(control.begin())
RECURSIVE Evict(_, _)
Evict(ctrl, capacity) ==
    IF Cardinality(DOMAIN ctrl) > capacity
    THEN Evict([k \in DOMAIN ctrl \ {MinKey(DOMAIN ctrl)} |-> ctrl[k]], capacity)
    ELSE ctrl

\* the key frame schedule alone, without the test of control.size()
KeepKeyFrameOnSchedule(f, frame_index) == frame_index >= f.next_key_frame

\* "see if we need to keep this image as a key frame"
KeepKeyFrame(f, frame_index) ==
    \/ frame_index >= f.next_key_frame
    \/ Cardinality(DOMAIN f.control) < f.number_of_control_frames

\* the one element of a singleton: Only({F(x) : x \in {e}}) is F(e), with e
\* evaluated once
Only(S) == CHOOSE x \in S : TRUE

\* "we need to figure out a decent width and height to use for the thumbnails"
Rescaled(f, image) ==
    IF Area(f.thumbnail_size) <= 1
    THEN Only({[f EXCEPT !.thumbnail_ratio = ratio,
                         !.thumbnail_size = ThumbnailSize(image, ratio)] :
               ratio \in {Clamp(f.thumbnail_ratio, MinThumbnailRatio, MaxThumbnailRatio)}})
    ELSE f

\* the mask forced by the bounding box alone
MaskForcedByBbox(f) ==
    IF f.bbox_enabled THEN [f EXCEPT !.mask_enabled = TRUE] ELSE f

\* "bounding box requires the mask to be created"
MaskForced(f) ==
    IF f.contours_enabled \/ f.bbox_enabled THEN [f EXCEPT !.mask_enabled = TRUE] ELSE f

\* movement_detected = false alone: the score stays what it was
ScannedKeepingScore(f, scan) == [f EXCEPT !.movement_detected = FALSE]

\* movement_detected = false, and the scores assigned in the loop
Scanned(f, scan) ==
    [f EXCEPT !.movement_detected = FALSE, !.most_recent_psnr_score = scan.score]

\* the assignments of the loop when a score is below the threshold
Moved(f, frame_index, now) ==
    [f EXCEPT !.movement_detected = TRUE,
              !.movement_last_detected = now,
              !.frame_index_with_movement = frame_index]

\* the output made only for a frame with movement
OutputsOnMovement(previous, f, made, image) ==
    Only({[f EXCEPT !.transition_detected = (previous # f.movement_detected),
                    !.mask = msk,
                    !.output = IF f.mask_enabled /\ f.movement_detected
                                  /\ (f.contours_enabled \/ f.bbox_enabled)
                               THEN Annotate(f, image, msk) ELSE @] :
          msk \in {IF f.mask_enabled
                      /\ (\/ Empty(made)
                          \/ (previous # f.movement_detected /\ ~f.movement_detected))
                   THEN BlankMask(image) ELSE made}})

\* transition_detected, the reset of the mask, the output; 'previous' is
\* previous_movement_detected, 'made' the mask the loop left
Outputs(previous, f, made, image) ==
    Only({[f EXCEPT !.transition_detected = (previous # f.movement_detected),
                    !.mask = msk,
                    !.output = IF f.mask_enabled /\ (f.contours_enabled \/ f.bbox_enabled)
                               THEN Annotate(f, image, msk) ELSE @] :
          msk \in {IF f.mask_enabled
                      /\ (\/ Empty(made)
                          \/ (previous # f.movement_detected /\ ~f.movement_detected))
                   THEN BlankMask(image) ELSE made}})

\* the key frame kept, the next one scheduled a frame late
KeptLate(f, frame_index, thumbnail) ==
    IF KeepKeyFrame(f, frame_index)
    THEN [f EXCEPT !.control = Evict(Insert(f.control, frame_index, thumbnail),
                                     f.number_of_control_frames),
                   !.next_key_frame = frame_index + f.key_frame_frequency + 1,
                   !.next_frame_index = frame_index + 1]
    ELSE [f EXCEPT !.next_frame_index = frame_index + 1]

\* the key frame kept without a new next_key_frame
KeptWithoutSchedule(f, frame_index, thumbnail) ==
    IF KeepKeyFrame(f, frame_index)
    THEN [f EXCEPT !.control = Evict(Insert(f.control, frame_index, thumbnail),
                                     f.number_of_control_frames),
                   !.next_frame_index = frame_index + 1]
    ELSE [f EXCEPT !.next_frame_index = frame_index + 1]

\* the key frame, and next_frame_index
Kept(f, frame_index, thumbnail) ==
    IF KeepKeyFrame(f, frame_index)
    THEN [f EXCEPT !.control = Evict(Insert(f.control, frame_index, thumbnail),
                                     f.number_of_control_frames),
                   !.next_key_frame = frame_index + f.key_frame_frequency,
                   !.next_frame_index = frame_index + 1]
    ELSE [f EXCEPT !.next_frame_index = frame_index + 1]

\* the key frame kept under next_frame_index, whatever index was passed
FinishAtNext(previous, f, made, thumbnail, frame_index, image) ==
    [fields |-> Only({Kept(g, f.next_frame_index, thumbnail) :
                      g \in {Outputs(previous, f, made, image)}}),
     ends   |-> Returned]

\* detect() from the end of the loop on
Finish(previous, f, made, thumbnail, frame_index, image) ==
    [fields |-> Only({Kept(g, frame_index, thumbnail) :
                      g \in {Outputs(previous, f, made, image)}}),
     ends   |-> Returned]

\* the mask made from the oldest control frame, whichever one scored below
\* the threshold
AfterMovementFromOldest(previous, f, thumbnail, key, frame_index, image) ==
    IF ~f.mask_enabled
    THEN Finish(previous, f, f.mask, thumbnail, frame_index, image)
    ELSE IF Channels(thumbnail.type) # 3
    THEN [fields |-> f, ends |-> CvException("cvtColor")]
    ELSE Finish(previous, f,
                MovementMask(f.control[MinKey(DOMAIN f.control)], thumbnail, image),
                thumbnail, frame_index, image)

\* the body of "if (mask_enabled)" in the loop, and on;
\* cv::cvtColor(COLOR_BGR2GRAY) asserts 3 or 4 channels
AfterMovement(previous, f, thumbnail, key, frame_index, image) ==
    IF ~f.mask_enabled
    THEN Finish(previous, f, f.mask, thumbnail, frame_index, image)
    ELSE IF Channels(thumbnail.type) # 3
    THEN [fields |-> f, ends |-> CvException("cvtColor")]
    ELSE Finish(previous, f, MovementMask(f.control[key], thumbnail, image),
                thumbnail, frame_index, image)

\* the loop entered at control.rbegin() whether there is an entry or not
AfterScanOfEntry(previous, f, thumbnail, scan, frame_index, image, now) ==
    IF scan.status = "threw" \/ DOMAIN f.control = {}
    THEN [fields |-> Scanned(f, scan), ends |-> InvalidArgument("psnr")]
    ELSE IF scan.status = "movement"
    THEN Only({AfterMovement(previous, g, thumbnail, scan.key, frame_index, image) :
               g \in {Moved(Scanned(f, scan), frame_index, now)}})
    ELSE Only({Finish(previous, g, g.mask, thumbnail, frame_index, image) :
               g \in {Scanned(f, scan)}})

\* detect() from the loop on
AfterScan(previous, f, thumbnail, scan, frame_index, image, now) ==
    IF scan.status = "threw"
    THEN [fields |-> Scanned(f, scan), ends |-> InvalidArgument("psnr")]
    ELSE IF scan.status = "movement"
    THEN Only({AfterMovement(previous, g, thumbnail, scan.key, frame_index, image) :
               g \in {Moved(Scanned(f, scan), frame_index, now)}})
    ELSE Only({Finish(previous, g, g.mask, thumbnail, frame_index, image) :
               g \in {Scanned(f, scan)}})

\* detect() from cv::resize on; cv::resize asserts that the size is not empty
AfterRescale(previous, f, frame_index, image, now) ==
    IF f.thumbnail_size.width <= 0 \/ f.thumbnail_size.height <= 0
    THEN [fields |-> f, ends |-> CvException("resize")]
    ELSE Only({AfterScan(previous, f, ts[1], ts[2], frame_index, image, now) :
               ts \in {Only({<<thumbnail,
                               Scan(f.control, DOMAIN f.control, thumbnail,
                                    f.psnr_threshold, f.most_recent_psnr_score)>> :
                             thumbnail \in {Resize(image, f.thumbnail_size)}})}})

\* detect() without its test of image.empty()
DetectFieldsUnchecked(f, frame_index, image, now) ==
    Only({AfterRescale(f.movement_detected, g, frame_index, image, now) :
          g \in {MaskForced(Rescaled(f, image))}})

\* MoveDetect::Handler::detect(frame_index, image) on the fields f, the clock
\* reading 'now': the fields it leaves and how it ends
DetectFields(f, frame_index, image, now) ==
    IF Empty(image)
    THEN [fields |-> f, ends |-> InvalidArgument("detect")]
    ELSE Only({AfterRescale(f.movement_detected, g, frame_index, image, now) :
               g \in {MaskForced(Rescaled(f, image))}})

\* ------------------------------------------------------------ the caller
Levels == {100, 104, 200}

FrameSizes == {<<20, 20>>, <<40, 20>>}

Solid(size, type, v) == [cols |-> size[1], rows |-> size[2], type |-> type, val |-> v]

BgrFrames == {Solid(s, "CV_8UC3", v) : s \in FrameSizes, v \in Levels}

GreyFrames == {Solid(<<40, 20>>, "CV_8UC1", 100)}

\* the images the caller passes: solid frames, and the empty Mat
Frames == BgrFrames \cup GreyFrames \cup {EmptyMat}

\* one frame over and over, and the empty Mat
PlainFrames == {Solid(<<40, 20>>, "CV_8UC3", 100), EmptyMat}

\* one size, two colours, and the empty Mat
TwoToneFrames == {Solid(<<40, 20>>, "CV_8UC3", v) : v \in {100, 200}} \cup {EmptyMat}

KeyFrameFrequencies == {1, 2, DefaultKeyFrameFrequency}

Capacities == {0, 2, DefaultNumberOfControlFrames}

Thresholds == {DefaultPsnrThreshold, 40000}

Ratios == {5, DefaultThumbnailRatio, 250}

\* the readings std::chrono::high_resolution_clock::now() can give
Readings ==
    (IF movement_last_detected = 0 THEN 1 ELSE movement_last_detected) .. MaxClock

\* bool detect(const size_t frame_index, cv::Mat & image)
Detect(frame_index, image) ==
    \E now \in Readings :
    \E r \in {DetectFields(Fields, frame_index, image, now)} :
        LET ordered == in_order /\ frame_index >= next_frame_index
        IN  /\ Assign(r.fields)
            /\ outcome' = DetectCall(frame_index, image, r.ends)
            /\ IF r.ends = Returned
               THEN /\ last_result' = r.fields.movement_detected
                    /\ in_order' = ordered
                    /\ calls' = IF ordered THEN calls + 1 ELSE calls
                    /\ last_kept' = IF KeepKeyFrame(Fields, frame_index)
                                    THEN [kept |-> TRUE, index |-> frame_index,
                                          frequency |-> key_frame_frequency]
                                    ELSE last_kept
               ELSE UNCHANGED <<last_result, in_order, calls, last_kept>>
            /\ UNCHANGED <<cap_changed, config_writes, compared>>

\* bool detect(cv::Mat & next_image)
DetectNext(next_image) == Detect(next_frame_index, next_image)

\* a write of the caller to one public configuration field
Write(field, value) ==
    /\ config_writes < MaxConfigWrites
    /\ Fields[field] # value
    /\ \E f \in {[Fields EXCEPT ![field] = value]} : Assign(f)
    /\ outcome' = Call("write", EmptyMat, Returned)
    /\ config_writes' = config_writes + 1
    /\ cap_changed' = (cap_changed \/ (field = "number_of_control_frames"
                                       /\ next_frame_index > 0))
    /\ UNCHANGED <<last_result, calls, in_order, last_kept, compared>>

SetKeyFrameFrequency == \E v \in KeyFrameFrequencies : Write("key_frame_frequency", v)

SetNumberOfControlFrames == \E v \in Capacities : Write("number_of_control_frames", v)

SetPsnrThreshold == \E v \in Thresholds : Write("psnr_threshold", v)

SetThumbnailRatio == \E v \in Ratios : Write("thumbnail_ratio", v)

ResetThumbnailSize == Write("thumbnail_size", [width |-> 0, height |-> 0])

SetMaskEnabled == \E v \in BOOLEAN : Write("mask_enabled", v)

SetContoursEnabled == \E v \in BOOLEAN : Write("contours_enabled", v)

SetBboxEnabled == \E v \in BOOLEAN : Write("bbox_enabled", v)

SetLineType == \E v \in {"LINE_4", "LINE_AA"} : Write("line_type", v)

SetContoursSize == \E v \in {DefaultContoursSize, 4} : Write("contours_size", v)

SetBboxSize == \E v \in {DefaultBboxSize, 2} : Write("bbox_size", v)

\* explicit index as the header asks: frame_index >= next_frame_index
DetectInOrder ==
    \E i \in 0 .. MaxIndex, image \in Frames :
        i >= next_frame_index /\ Detect(i, image)

DetectSequential ==
    \E image \in Frames : next_frame_index <= MaxIndex /\ DetectNext(image)

\* detection: frames of every colour and size, indices in order
Next ==
    \/ clear
    \/ DetectInOrder
    \/ DetectSequential
    \/ SetPsnrThreshold
    \/ SetMaskEnabled
    \/ SetContoursEnabled
    \/ SetBboxEnabled

Spec == Init /\ [][Next]_vars

DetectAnyIndex ==
    \E i \in 0 .. MaxBufferIndex, image \in PlainFrames : Detect(i, image)

DetectSequentialPlain ==
    \E image \in PlainFrames : next_frame_index <= MaxBufferIndex /\ DetectNext(image)

\* the control buffer: any index, in order or not, any capacity and frequency
NextBuffer ==
    \/ clear
    \/ DetectAnyIndex
    \/ DetectSequentialPlain
    \/ SetKeyFrameFrequency
    \/ SetNumberOfControlFrames

SpecBuffer == Init /\ [][NextBuffer]_vars

DetectSequentialTwoTone ==
    \E image \in TwoToneFrames \cup GreyFrames : next_frame_index <= MaxIndex /\ DetectNext(image)

\* every configuration field written, frames in sequence
NextClear ==
    \/ clear
    \/ DetectSequentialTwoTone
    \/ SetKeyFrameFrequency
    \/ SetNumberOfControlFrames
    \/ SetPsnrThreshold
    \/ SetThumbnailRatio
    \/ ResetThumbnailSize
    \/ SetMaskEnabled
    \/ SetContoursEnabled
    \/ SetBboxEnabled
    \/ SetLineType
    \/ SetContoursSize
    \/ SetBboxSize

SpecClear == Init /\ [][NextClear]_vars

\* frames of one size: near and far colours, and a grey frame that no BGR
\* thumbnail compares with
MaskFrames == {Solid(<<40, 20>>, "CV_8UC3", v) : v \in Levels} \cup GreyFrames

DetectSequentialMask ==
    \E image \in MaskFrames : next_frame_index <= MaxMaskIndex /\ DetectNext(image)

\* the mask over a longer run: the buffer fills, movement comes and goes
NextMask ==
    \/ clear
    \/ DetectSequentialMask
    \/ SetMaskEnabled

SpecMask == Init /\ [][NextMask]_vars

\* the caller sets up the key frames before the first frame, as the test
\* application does
ConfigureBuffer ==
    /\ outcome.call \in {"Handler", "clear"}
    /\ \E k \in KeyFrameFrequencies, c \in Capacities :
          \E f \in {[Fields EXCEPT !.key_frame_frequency = k,
                                   !.number_of_control_frames = c]} : Assign(f)
    /\ outcome' = Call("configure", EmptyMat, Returned)
    /\ UNCHANGED <<last_result, calls, in_order, cap_changed, config_writes,
                   last_kept, compared>>

\* a configured buffer fed frames in sequence, its capacity changed on the way
NextEvict ==
    \/ clear
    \/ ConfigureBuffer
    \/ DetectSequentialPlain
    \/ SetNumberOfControlFrames

SpecEvict == Init /\ [][NextEvict]_vars

\* frames under any index, in order or not, the key frame frequency written
\* between them
NextIndex ==
    \/ clear
    \/ DetectAnyIndex
    \/ DetectSequentialPlain
    \/ SetKeyFrameFrequency

SpecIndex == Init /\ [][NextIndex]_vars

\* ------------------------------------------------------ psnr() by itself
PixelLevels == {0, 100, 104, 255}

\* solid buffers of every size up to MaxSide x MaxSide, those without columns
\* or rows among them, of one channel and of three
Buffers ==
    {[cols |-> c, rows |-> r, type |-> t, val |-> v] :
        c \in 0 .. MaxSide, r \in 0 .. MaxSide,
        t \in {"CV_8UC1", "CV_8UC3"}, v \in PixelLevels}

\* a new Handler, and two buffers about to be compared
InitPsnr ==
    /\ Constructed
    /\ compared \in {[NotCompared EXCEPT !.src = a, !.dst = b] : a, b \in Buffers}

\* double psnr(const cv::Mat & src, const cv::Mat & dst), called by the user
ComparePair ==
    /\ ~compared.done
    /\ \E r \in {psnr(compared.src, compared.dst)} :
          compared' = [compared EXCEPT !.done = TRUE, !.threw = r.threw, !.value = r.value]
    /\ UNCHANGED <<handler, history>>

NextPsnr == ComparePair

SpecPsnr == InitPsnr /\ [][NextPsnr]_vars

\* ---------------------------------------------------- the scenario of 8.
ScenarioLevels == {0, 50, 100, 104, 200, 255}

ScenarioFrames == {Solid(s, "CV_8UC3", v) : s \in FrameSizes, v \in ScenarioLevels}

\* "a sequence of 5 identical solid-color frames": one more than the control
\* buffer holds
IdenticalFrames == DefaultNumberOfControlFrames + 1

\* the thumbnail a default engine makes of the image
DefaultThumbnail(image) == Resize(image, ThumbnailSize(image, DefaultThumbnailRatio))

\* one more of the identical frames, at indices 0, 1, ...
DetectIdentical ==
    \E image \in ScenarioFrames :
        /\ calls < IdenticalFrames
        /\ \A k \in DOMAIN control : control[k] = DefaultThumbnail(image)
        /\ DetectNext(image)

\* then a frame that differs: its score against every control frame is below
\* the threshold
DetectDiffering ==
    \E image \in ScenarioFrames :
        /\ calls = IdenticalFrames
        /\ \A k \in DOMAIN control :
              /\ AbsDiff(control[k], DefaultThumbnail(image)) > 0
              /\ psnr(control[k], DefaultThumbnail(image)).value < psnr_threshold
        /\ Detect(IdenticalFrames, image)

NextScenario == DetectIdentical \/ DetectDiffering

SpecScenario == Init /\ [][NextScenario]_vars

\* ------------------------------------------------------------ properties
ControlSize == Cardinality(DOMAIN control)

\* C1: as long as number_of_control_frames is not changed between calls, the
\* control buffer holds at most number_of_control_frames entries.
C1_ControlWithinCapacity ==
    ~cap_changed => ControlSize <= number_of_control_frames

\* a full buffer after more calls than its capacity: an entry was evicted
C1_Witness ==
    /\ ~cap_changed
    /\ outcome.call = "detect" /\ outcome.result = "returned"
    /\ number_of_control_frames > 0
    /\ ControlSize = number_of_control_frames
    /\ in_order /\ calls > number_of_control_frames
    /\ next_frame_index - 1 \in DOMAIN control

\* C2: from a fresh or cleared engine, with indices in order and the capacity
\* left alone, the n-th detect() that returns leaves n entries in the control
\* buffer, for every n up to the capacity, whatever key_frame_frequency is.
C2_Bootstrap ==
    (in_order /\ ~cap_changed /\ calls <= number_of_control_frames)
        => ControlSize = calls

\* the buffer filled to its capacity by calls closer than key_frame_frequency
C2_Witness ==
    /\ in_order /\ ~cap_changed
    /\ outcome.call = "detect" /\ outcome.result = "returned"
    /\ calls = number_of_control_frames
    /\ calls >= 2
    /\ key_frame_frequency > next_frame_index

DetectReturned == outcome.call = "detect" /\ outcome.result = "returned"

\* C3: after every detect() that returns, transition_detected is true iff the
\* boolean returned differs from the boolean returned by the preceding detect()
\* (from the initial no-movement state on the first call).
C3_TransitionIffResultDiffers ==
    [][(outcome'.call = "detect" /\ outcome'.result = "returned")
          => (transition_detected' = (movement_detected' # last_result))]_vars

\* C4: a default engine fed identical frames at indices 0..4 reports no
\* movement on any of the calls, and after the fifth the control buffer holds
\* as many entries as its capacity.
C4_IdenticalFramesNoMovement ==
    (DetectReturned /\ calls <= IdenticalFrames)
        => /\ ~movement_detected
           /\ calls = IdenticalFrames => ControlSize = DefaultNumberOfControlFrames

\* C5: the differing frame at index 5, after the five identical frames, is
\* reported as movement at frame 5 and as a transition.
C5_DifferingFrameIsTransition ==
    (DetectReturned /\ calls = IdenticalFrames + 1)
        => /\ movement_detected
           /\ frame_index_with_movement = IdenticalFrames
           /\ transition_detected

\* C6: clear() leaves every field of the Handler as the constructor leaves
\* it, whatever calls and configuration writes came before; what the Handler
\* does next depends on its fields alone, so it does as a new one does.
C6_ClearRestoresConstructed ==
    outcome.call = "clear"
        => /\ Fields = Cleared
           /\ <<last_result, calls, in_order, cap_changed, config_writes>>
                  = <<FALSE, 0, TRUE, FALSE, 0>>

\* clear() of a Handler that had frames and a changed configuration
C6_Witness ==
    /\ outcome.call = "clear"
    /\ outcome.discarded.calls > 1
    /\ outcome.discarded.writes > 0

\* C7: detect() of an empty frame throws std::invalid_argument and leaves
\* every field of the Handler as it was.
C7_EmptyFrameRejected ==
    [][(outcome'.call = "detect" /\ Area(outcome'.size) = 0)
          => /\ outcome'.result = "invalid_argument"
             /\ outcome'.thrown_by = "detect"
             /\ UNCHANGED handler]_vars

\* an empty frame refused by a Handler that holds control frames and movement
C7_Witness ==
    /\ outcome.call = "detect" /\ Area(outcome.size) = 0
    /\ outcome.result = "invalid_argument"
    /\ ControlSize > 0
    /\ movement_detected
    /\ thumbnail_size.width > 0

\* C8: a detect() that fails in psnr(), the thumbnail's type or size differing
\* from a control frame's, leaves the control buffer, the counters, the
\* movement flags, the score, the thumbnail size and ratio and mask_enabled as
\* they were.
C8_FailedCompareLeavesState ==
    [][(outcome'.call = "detect" /\ outcome'.thrown_by = "psnr")
          => UNCHANGED <<control, next_frame_index, next_key_frame,
                         movement_detected, transition_detected,
                         most_recent_psnr_score, thumbnail_size,
                         thumbnail_ratio, mask_enabled>>]_vars

\* C9: with the mask enabled, a detect() that returns false after a detect()
\* that returned true leaves a mask of zeros of the size of the frame.
C9_MaskBlankWhenMovementEnds ==
    [][(/\ outcome'.call = "detect" /\ outcome'.result = "returned"
        /\ mask_enabled'
        /\ last_result /\ ~movement_detected')
          => /\ mask'.val = 0
             /\ Size(mask') = outcome'.size]_vars

\* C10: whenever a detect() with the mask enabled returns false, the mask is
\* all zeros.
C10_NoStaleMask ==
    (DetectReturned /\ mask_enabled /\ ~movement_detected) => mask.val = 0

\* C11: psnr() of two buffers of the same type, size and content is not below
\* its value for any two buffers that differ.
C11_IdenticalScoresHighest ==
    (/\ compared.done /\ ~compared.threw
     /\ compared.src = compared.dst)
        => \A v, w \in PixelLevels :
              v # w =>
                 psnr([compared.src EXCEPT !.val = v],
                      [compared.dst EXCEPT !.val = w]).value <= compared.value

\* C12: psnr() throws std::invalid_argument exactly when one of the buffers is
\* empty or the two differ in type, width or height, and returns a score
\* otherwise.
C12_ThrowsOnEmptyOrMismatch ==
    compared.done
        => (compared.threw
              <=> \/ compared.src.cols * compared.src.rows = 0
                  \/ compared.dst.cols * compared.dst.rows = 0
                  \/ compared.src.type # compared.dst.type
                  \/ Size(compared.src) # Size(compared.dst))

\* two buffers of the same type and width, of different heights, refused
C12_Witness ==
    /\ compared.done /\ compared.threw
    /\ ~Empty(compared.src) /\ ~Empty(compared.dst)
    /\ compared.src.type = compared.dst.type
    /\ compared.src.cols = compared.dst.cols
    /\ compared.src.rows # compared.dst.rows

\* a step of a detect() that returns
DetectReturns == outcome'.call = "detect" /\ outcome'.result = "returned"

\* the frame index that call was given
IndexGiven == next_frame_index' - 1

\* the thumbnail that call made of its image
ThumbnailMade == Resize(outcome'.image, thumbnail_size')

\* the admission policy as the claim words it, for the call of this step
PolicyFollowed ==
    IF IndexGiven >= next_key_frame \/ ControlSize < number_of_control_frames
    THEN /\ IndexGiven \in DOMAIN control'
         /\ control'[IndexGiven] = ThumbnailMade
         /\ next_key_frame' = IndexGiven + key_frame_frequency
    ELSE /\ control' = control
         /\ next_key_frame' = next_key_frame

\* C13 as stated: every detect() that returns stores the thumbnail under its
\* index iff the index has reached next_key_frame or the buffer was not full,
\* and then sets next_key_frame to index + key_frame_frequency; otherwise the
\* buffer and next_key_frame are as before.
C13_AdmissionPolicy == [][DetectReturns => PolicyFollowed]_vars

\* C13, amended: the same for a Handler whose number_of_control_frames is at
\* least 1 and whose frame indices have come in order. With a capacity of 0
\* the frame is inserted and erased at once; so is a frame of an index below
\* those stored, when the buffer holds more than its capacity.
C13_AdmissionPolicyWithCapacity ==
    [][(DetectReturns /\ number_of_control_frames >= 1 /\ in_order')
          => PolicyFollowed]_vars

\* a frame with movement kept on schedule in a buffer that was full
C13_Witness ==
    /\ DetectReturned
    /\ in_order
    /\ movement_detected
    /\ last_kept.kept /\ last_kept.index = next_frame_index - 1
    /\ next_frame_index - 1 \in DOMAIN control
    /\ number_of_control_frames >= 1
    /\ ControlSize = number_of_control_frames
    /\ ControlSize < calls
    /\ next_key_frame = next_frame_index - 1 + key_frame_frequency

\* the score of the two thumbnails is below the threshold
Below(val, thumbnail, threshold) ==
    \E r \in {psnr(val, thumbnail)} : ~r.threw /\ r.value < threshold

\* C14: detect() returns true iff some thumbnail of the control buffer, as it
\* was before this call's key frame step, scores below psnr_threshold against
\* the new thumbnail; the value returned is movement_detected; with an empty
\* control buffer it is false.
C14_MovementIffBelowThreshold ==
    [][DetectReturns
          => /\ movement_detected'
                  <=> \E k \in DOMAIN control :
                         Below(control[k], ThumbnailMade, psnr_threshold)
             /\ last_result' = movement_detected'
             /\ empty => ~movement_detected']_vars

\* movement found against an older control frame, the thumbnail being close
\* to a more recent one
C14_Witness ==
    /\ DetectReturned
    /\ movement_detected
    /\ \E j, k \in DOMAIN control \ {next_frame_index - 1} :
          /\ j < k
          /\ ~psnr(control[k], Resize(outcome.image, thumbnail_size)).threw
          /\ ~Below(control[k], Resize(outcome.image, thumbnail_size), psnr_threshold)
          /\ Below(control[j], Resize(outcome.image, thumbnail_size), psnr_threshold)

\* this step's detect() kept its frame, at a higher index than the frame
\* kept before it, the indices having come in order
KeptAgain ==
    /\ DetectReturns
    /\ in_order'
    /\ last_kept.kept
    /\ last_kept'.index = IndexGiven
    /\ last_kept.index < IndexGiven

\* C15 as stated: two consecutive admissions, at i < j, are at least
\* key_frame_frequency indices apart.
C15_IntervalBetweenAdmissions ==
    [][KeptAgain => IndexGiven - last_kept.index >= key_frame_frequency]_vars

\* C15, amended: they are at least as far apart as key_frame_frequency was at
\* the admission at i, when the buffer was full before the admission at j.
C15_IntervalOnceFull ==
    [][(KeptAgain /\ ControlSize >= number_of_control_frames)
          => IndexGiven - last_kept.index >= last_kept.frequency]_vars

\* a frame kept by a full buffer, key_frame_frequency after the one before it
C15_Witness ==
    /\ DetectReturned
    /\ in_order
    /\ last_kept.kept /\ last_kept.index = next_frame_index - 1
    /\ number_of_control_frames >= 1
    /\ ControlSize = number_of_control_frames
    /\ calls > number_of_control_frames
    /\ \E i \in DOMAIN control :
          /\ i < last_kept.index
          /\ last_kept.index - i = key_frame_frequency

\* C16: a new Handler has threshold 32.0, a key frame every 10 frames, 4
\* control frames, a thumbnail ratio of 0.05 (here in thousandths), the mask,
\* the contours and the bounding box disabled, an empty control buffer, no
\* movement and no transition, and both indices at 0.
C16_ConstructedDefaults ==
    outcome.call = "Handler"
        => /\ psnr_threshold = 32000
           /\ key_frame_frequency = 10
           /\ number_of_control_frames = 4
           /\ thumbnail_ratio = 50
           /\ ~mask_enabled /\ ~contours_enabled /\ ~bbox_enabled
           /\ empty
           /\ ~movement_detected /\ ~transition_detected
           /\ next_frame_index = 0 /\ next_key_frame = 0

\* the Handler right after its constructor
C16_Witness ==
    /\ outcome.call = "Handler"
    /\ calls = 0 /\ config_writes = 0
    /\ Empty(mask) /\ Empty(output.image)

\* C17: a detect() that returns while contours_enabled or bbox_enabled is set
\* leaves mask_enabled set, a mask, and an output that is the frame of this
\* call; contours are drawn only if contours_enabled and the rectangle only if
\* bbox_enabled.
C17_AnnotationForcesMask ==
    [][(DetectReturns /\ (contours_enabled \/ bbox_enabled))
          => /\ mask_enabled'
             /\ ~Empty(mask')
             /\ output'.image = outcome'.image
             /\ output'.polylines # <<>> => contours_enabled
             /\ output'.rectangle # <<>> => bbox_enabled]_vars

\* contours alone, mask_enabled never written: the mask exists and the output
\* has contours and no rectangle
C17_Witness ==
    /\ DetectReturned
    /\ contours_enabled /\ ~bbox_enabled
    /\ mask_enabled
    /\ mask.val # 0
    /\ output.image = outcome.image
    /\ output.polylines # <<>> /\ output.rectangle = <<>>

\* C18: once a detect() has returned, no later detect() changes
\* thumbnail_size, whatever the size of its frame.
C18_ThumbnailSizeCached ==
    [][(outcome'.call = "detect" /\ next_frame_index > 0)
          => thumbnail_size' = thumbnail_size]_vars

\* C19: the thumbnail size detect() computes for a frame that is not empty
\* has a width and a height of at least 1, whatever thumbnail_ratio is.
C19_ThumbnailNeverDegenerate ==
    [][(outcome'.call = "detect" /\ ~Empty(outcome'.image))
          => /\ thumbnail_size'.width >= 1
             /\ thumbnail_size'.height >= 1]_vars

\* a step of a detect() given a frame that is not empty, by a Handler whose
\* number_of_control_frames is 0
DetectWithoutCapacity ==
    /\ outcome'.call = "detect"
    /\ ~Empty(outcome'.image)
    /\ number_of_control_frames = 0

\* the call returns, and the control buffer is within the capacity
WithinCapacityAfter ==
    /\ outcome'.result = "returned"
    /\ Cardinality(DOMAIN control') <= number_of_control_frames'

BelowKeys(thumbnail) ==
    {k \in DOMAIN control : Below(control[k], thumbnail, psnr_threshold)}

\* the score of the control frame under key k against the thumbnail
ScoreAgainst(k, thumbnail) == psnr(control[k], thumbnail).value

\* the mask of the differences between the control frame under key k and the
\* thumbnail, of the size of the frame
MaskAgainst(k, thumbnail) ==
    [cols |-> outcome'.image.cols, rows |-> outcome'.image.rows, type |-> "CV_8UC1",
     val  |-> IF control[k].val # thumbnail.val THEN 255 ELSE 0]

\* C21: detect() compares the control frames from the highest index down and
\* stops at the first that scores below the threshold: when it returns true,
\* most_recent_psnr_score is the score against the highest-index control frame
\* below the threshold, not that of a frame of a lower index, and the mask,
\* when enabled, is made from that frame; when it returns false with control
\* frames, none is below the threshold and the score is that of the last one
\* of the scan, the lowest index.
C21_ScanFromNewest ==
    [][DetectReturns =>
        \E thumbnail \in {ThumbnailMade} : \E hits \in {BelowKeys(thumbnail)} :
            IF movement_detected'
            THEN /\ hits # {}
                 /\ \E k \in {MaxKey(hits)} :
                        /\ most_recent_psnr_score' = ScoreAgainst(k, thumbnail)
                        /\ mask_enabled' => mask' = MaskAgainst(k, thumbnail)
            ELSE /\ hits = {}
                 /\ ~empty => most_recent_psnr_score'
                                 = ScoreAgainst(MinKey(DOMAIN control), thumbnail)]_vars

\* movement found at the second control frame of the scan, with a mask of its
\* differences, while an older control frame would have given another score
C21_Witness ==
    /\ DetectReturned
    /\ movement_detected /\ mask_enabled /\ mask.val = 255
    /\ \E thumbnail \in {Resize(outcome.image, thumbnail_size)} :
       \E l, k, h \in DOMAIN control \ {next_frame_index - 1} :
          /\ l < k /\ k < h
          /\ ~Below(control[h], thumbnail, psnr_threshold)
          /\ Below(control[k], thumbnail, psnr_threshold)
          /\ most_recent_psnr_score = psnr(control[k], thumbnail).value
          /\ psnr(control[l], thumbnail).value # most_recent_psnr_score
          /\ control[l].val = thumbnail.val

\* the keys of the control buffer with the index of this call inserted
KeysWith == DOMAIN control \cup {IndexGiven}

\* S is the n highest of the keys
Largest(S, keys, n) ==
    /\ S \subseteq keys
    /\ Cardinality(S) = n
    /\ \A a \in S, b \in keys \ S : b < a

\* C22: when a detect() admits its frame and the buffer is then larger than
\* number_of_control_frames, as the caller has left it by then, the entries of
\* the lowest indices are removed until the size is the capacity, so that the
\* entries of the highest indices remain; when the buffer is not larger, none
\* is removed; the thumbnails that remain are as they were.
C22_EvictionBySmallestIndex ==
    [][(/\ DetectReturns
        /\ \/ IndexGiven >= next_key_frame
           \/ ControlSize < number_of_control_frames)
          => /\ IF Cardinality(KeysWith) > number_of_control_frames
                THEN Largest(DOMAIN control', KeysWith, number_of_control_frames)
                ELSE DOMAIN control' = KeysWith
             /\ \A k \in DOMAIN control' :
                    control'[k] = IF k = IndexGiven THEN ThumbnailMade
                                                   ELSE control[k]]_vars

\* a frame admitted after the capacity was lowered to 2: the buffer holds the
\* two highest indices of the four frames processed
C22_Witness ==
    /\ DetectReturned
    /\ cap_changed /\ number_of_control_frames = 2
    /\ calls >= 4
    /\ last_kept.kept /\ last_kept.index = next_frame_index - 1
    /\ DOMAIN control = {next_frame_index - 2, next_frame_index - 1}

\* C23: frame_index_with_movement and movement_last_detected change only in a
\* detect() that returns true, which leaves its index in
\* frame_index_with_movement; any other detect() leaves both as they were.
C23_MovementFieldsFollowTrue ==
    [][outcome'.call = "detect"
          => IF outcome'.result = "returned" /\ movement_detected'
             THEN frame_index_with_movement' = IndexGiven
             ELSE UNCHANGED <<frame_index_with_movement, movement_last_detected>>]_vars

\* C24: every detect(index, frame) that returns leaves next_frame_index at
\* index + 1; the index is not checked: a detect() given a frame that is not
\* empty returns whatever its index is, below next_frame_index and repeated
\* indices among them.
C24_IndexNotValidated ==
    [][outcome'.call = "detect"
          => /\ ~Empty(outcome'.image) => outcome'.result = "returned"
             /\ outcome'.result = "returned"
                   => next_frame_index' = outcome'.index + 1]_vars

\* a detect() that returned for an index below that of a frame processed
\* before, which the control buffer still holds
C24_Witness ==
    /\ DetectReturned
    /\ ~in_order
    /\ next_frame_index = outcome.index + 1
    /\ \E k \in DOMAIN control : outcome.index < k

\* most_recent_psnr_score is, after the call of this step, the score of the
\* call's thumbnail against a frame the control buffer held
ScoreOfThisCall ==
    \E thumbnail \in {ThumbnailMade} :
    \E k \in DOMAIN control : most_recent_psnr_score' = ScoreAgainst(k, thumbnail)

MaskSet == ~Empty(mask') /\ mask'.type = "CV_8UC1"

\* the output is set after the call of this step: a copy of its frame
OutputSet == ~Empty(output'.image) /\ output'.image = outcome'.image

\* C26 as stated: after every detect() that returns, the first and those that
\* return false among them, by a Handler with mask_enabled, contours_enabled
\* or bbox_enabled set, the mask is set and the output is a copy of the frame.
C26_MaskAndOutputSet ==
    [][(DetectReturns /\ (mask_enabled \/ contours_enabled \/ bbox_enabled))
          => MaskSet /\ OutputSet]_vars

\* C26, amended: the mask is set with any of the three; the output is a copy
\* of the frame with contours_enabled or bbox_enabled, and with mask_enabled
\* alone it is left as it was.
C26_MaskSetOutputWithAnnotation ==
    [][(DetectReturns /\ (mask_enabled \/ contours_enabled \/ bbox_enabled))
          => /\ MaskSet
             /\ IF contours_enabled \/ bbox_enabled
                THEN OutputSet
                ELSE output' = output]_vars

\* the first frame of a Handler with bbox_enabled: no movement, a mask of
\* zeros of the size of the frame, and the frame copied with nothing drawn
C26_Witness ==
    /\ DetectReturned
    /\ calls = 1 /\ next_frame_index = 1
    /\ bbox_enabled /\ ~contours_enabled
    /\ ~movement_detected
    /\ mask = BlankMask(outcome.image)
    /\ output = [image |-> outcome.image, polylines |-> <<>>, rectangle |-> <<>>]

\* C27: a Handler with number_of_control_frames >= 1 and key_frame_frequency
\* K >= 1, fed frames through detect(frame), holds between calls, once a frame
\* has been processed, a control frame whose index is at most K below
\* next_frame_index, the index of the frame to come, so that no frame is
\* compared only with control frames more than K indices old. The buffer is
\* empty then only if the capacity was 0 before.
C27_StalenessBound ==
    (number_of_control_frames >= 1 /\ key_frame_frequency >= 1 /\ next_frame_index > 0)
       => IF empty
          THEN cap_changed
          ELSE next_frame_index - MaxKey(DOMAIN control) <= key_frame_frequency

\* a full buffer and a frame to come that is K = 2 indices after the newest
\* control frame
C27_Witness ==
    /\ DetectReturned
    /\ key_frame_frequency = 2
    /\ number_of_control_frames >= 1
    /\ ControlSize = number_of_control_frames
    /\ calls >= 3
    /\ next_frame_index - MaxKey(DOMAIN control) = key_frame_frequency

\* the call of this step admits its frame
Admits ==
    /\ DetectReturns
    /\ \/ IndexGiven >= next_key_frame
       \/ ControlSize < number_of_control_frames

\* every key below next_frame_index, next_frame_index not lowered, and a frame
\* admitted with a capacity of 1 or more stored under the highest key
IndexContractKept ==
    /\ \A k \in DOMAIN control' : k < next_frame_index'
    /\ next_frame_index' >= next_frame_index
    /\ (Admits /\ number_of_control_frames >= 1)
          => /\ IndexGiven \in DOMAIN control'
             /\ \A k \in DOMAIN control' : k <= IndexGiven

\* C28 as stated: while every index passed is >= next_frame_index, after
\* every step other than clear() all keys of the control buffer are below
\* next_frame_index, next_frame_index and next_key_frame have not decreased,
\* and a frame admitted with a capacity >= 1 has the highest key of the buffer.
C28_IndexContract ==
    [][(in_order' /\ outcome'.call # "clear")
          => /\ IndexContractKept
             /\ next_key_frame' >= next_key_frame]_vars

\* C28, amended: next_key_frame does not decrease as long as
\* key_frame_frequency is not below what it was when the last key frame was
\* admitted; the rest as stated.
C28_IndexContractWithSteadyFrequency ==
    [][(in_order' /\ outcome'.call # "clear")
          => /\ IndexContractKept
             /\ key_frame_frequency >= last_kept.frequency
                   => next_key_frame' >= next_key_frame]_vars

\* indices in order, a key frame admitted into a full buffer: the frame of
\* index 0 is gone and the new frame has the highest key
C28_Witness ==
    /\ DetectReturned
    /\ in_order
    /\ calls > ControlSize
    /\ number_of_control_frames >= 1
    /\ ControlSize = number_of_control_frames
    /\ 0 \notin DOMAIN control
    /\ last_kept.kept /\ last_kept.index = next_frame_index - 1
    /\ next_frame_index - 1 = MaxKey(DOMAIN control)
    /\ next_key_frame = next_frame_index - 1 + key_frame_frequency

====
